---- MODULE Spec2Model ----
(***************************************************************************)
(* Control-flow graph construction of cubecl-opt                           *)
(* (crates/cubecl-opt/src/control_flow.rs).                                *)
(*                                                                         *)
(* The recursive lowering parse_control_flow / parse_scope is unfolded     *)
(* into steps.  `stack` is the call stack: one frame per construct whose   *)
(* nested scope is being lowered, holding that call's local variables.     *)
(* The structured input is drawn statement by statement, so every finite   *)
(* nesting within the bounds is lowered in some behaviour.  A scope of the *)
(* input ends with its return or break: no statement follows one in the    *)
(* same scope.                                                             *)
(***************************************************************************)
EXTENDS Integers, Sequences, FiniteSets, TLC

\* ---------------------------------------------------------------- bounds
\* A construct is only started while fewer than MaxNodes blocks exist.
MaxNodes == 6
\* Maximum number of (non-default) cases of a switch.
MaxCases == 1
\* Maximum number of opaque (non-branch) instructions in the whole input;
\* they are drawn in the bodies of loops and range loops, where the
\* synthesized instructions of a range loop are appended next to them.
MaxPlainOps == 1

\* The critical-edge pass is also run on drawn graphs of at most
\* MaxGraphNodes blocks and MaxGraphEdges distinct edges (plus one parallel
\* edge), every block with a predecessor carrying a phi node.
MaxGraphNodes == 3
MaxGraphEdges == 4

\* Option<NodeIndex>::None ; node ids are 1..program.nodes
None == 0

\* fatal aborts (panics) of the lowering
PanicBreak == "panic: Can't break outside loop"
PanicForLoop == "panic: For loop has no loopback path"

VARIABLES
    program,        \* the graph arena: nodes, edges, blocks
    current_block,  \* Optimizer::current_block : Option<NodeIndex>
    ret,            \* Optimizer::ret
    loop_break,     \* Optimizer::loop_break : VecDeque<NodeIndex>
    temps,          \* number of temporaries handed out by create_temporary
    stack,          \* call stack of the recursive lowering
    status,         \* "lowering" | "lowered" | "split1" | "split2" | a panic
    hist            \* history of what was lowered (observation only)

vars == <<program, current_block, ret, loop_break, temps, stack, status, hist>>

\* ------------------------------------------------------------ sequences
RECURSIVE SeqCount(_, _)
SeqCount(s, x) ==
    IF s = <<>> THEN 0
    ELSE (IF Head(s) = x THEN 1 ELSE 0) + SeqCount(Tail(s), x)

Contains(s, x) == \E i \in 1..Len(s) : s[i] = x

Range(s) == {s[i] : i \in 1..Len(s)}

\* ------------------------------------------------------------ the arena
CFNone == [tag |-> "None"]
CFReturn == [tag |-> "Return"]

\* BasicBlock::default()
DefaultBlock ==
    [ops |-> <<>>, control_flow |-> CFNone, block_use |-> <<>>, phi_nodes |-> <<>>]

\* a node index is handed out again: the last block is replaced
AddNodeReusesIndex(p) ==
    [p EXCEPT !.blocks[p.nodes] = DefaultBlock]

\* self.program.add_node(BasicBlock::default()); the new id is p.nodes + 1
AddNode(p) ==
    [p EXCEPT !.nodes = p.nodes + 1, !.blocks = Append(p.blocks, DefaultBlock)]

\* self.program.add_edge(s, t, ())
AddEdge(p, s, t) == [p EXCEPT !.edges = Append(p.edges, <<s, t>>)]

\* self.program[n].block_use.push(u)
PushUse(p, n, u) ==
    [p EXCEPT !.blocks[n].block_use = Append(p.blocks[n].block_use, u)]

\* the terminator is not stored
SetControlFlowSkips(p, n, cf) == p

\* *self.program[n].control_flow.borrow_mut() = cf
SetControlFlow(p, n, cf) == [p EXCEPT !.blocks[n].control_flow = cf]

\* self.program[n].ops.borrow_mut().push(op)
PushOpTo(p, n, op) == [p EXCEPT !.blocks[n].ops = Append(p.blocks[n].ops, op)]

HasUse(p, n, u) == Contains(p.blocks[n].block_use, u)

\* ids of the outgoing edges of n and their targets
OutEdges(p, n) == {i \in 1..Len(p.edges) : p.edges[i][1] = n}
Successors(p, n) == {p.edges[i][2] : i \in OutEdges(p, n)}
OutDegree(p, n) == Cardinality(OutEdges(p, n))

\* Optimizer::predecessors: the source of every incoming edge of n, one entry
\* per edge
predecessors(p, n) ==
    LET incoming == SelectSeq(p.edges, LAMBDA e : e[2] = n)
    IN [k \in 1..Len(incoming) |-> incoming[k][1]]

InDegree(p, n) == Len(predecessors(p, n))

\* ------------------------------------------------------------ call stack
Frame(kind, cur) ==
    [kind |-> kind, current_block |-> cur, then |-> None, or_else |-> None,
     next |-> None, header |-> None, body |-> None, default |-> None,
     phase |-> "then", is_break |-> FALSE,
     branches |-> <<>>, cases |-> 0, merge |-> None,
     scope_break |-> FALSE, scope_ret |-> FALSE, is_ret |-> FALSE,
     entered |-> loop_break]

Top == stack[Len(stack)]
Pop == SubSeq(stack, 1, Len(stack) - 1)
ReplaceTop(f) == [stack EXCEPT ![Len(stack)] = f]

\* next block of the innermost loop whose body syntactically encloses the
\* statement being lowered (None when there is none)
RECURSIVE InnermostLoopNext(_)
InnermostLoopNext(st) ==
    IF st = <<>> THEN None
    ELSE IF st[Len(st)].kind \in {"Loop", "RangeLoop"} THEN st[Len(st)].next
    ELSE InnermostLoopNext(SubSeq(st, 1, Len(st) - 1))

LoopDepth(st) ==
    Cardinality({i \in 1..Len(st) : st[i].kind \in {"Loop", "RangeLoop"}})

RECURSIVE PlainOpsUpTo(_, _)
PlainOpsUpTo(p, n) ==
    IF n = 0 THEN 0
    ELSE SeqCount(p.blocks[n].ops, [op |-> "Other"]) + PlainOpsUpTo(p, n - 1)

PlainOps(p) == PlainOpsUpTo(p, p.nodes)

\* a statement can be lowered: lowering is running and the cursor is open
CanLower == status = "lowering" /\ current_block # None
CanNest == CanLower /\ program.nodes < MaxNodes

\* ------------------------------------------------------------------ Init
\* parse_graph: entry block, cursor at entry, canonical return node
\* the graph before any node is added (hist: the pass has not run yet)
NoProgram == [nodes |-> 0, edges |-> <<>>, blocks |-> <<>>]

Init ==
    /\ program = [nodes |-> 2, edges |-> <<>>,
                  blocks |-> <<DefaultBlock,
                               [DefaultBlock EXCEPT !.control_flow = CFReturn]>>]
    /\ current_block = 1
    /\ ret = 2
    /\ loop_break = <<>>
    /\ temps = 0
    /\ stack = <<Frame("Root", 1)>>
    /\ status = "lowering"
    /\ hist = [returns |-> {}, breaks |-> {}, funnels |-> <<>>, ranges |-> {},
               splits |-> <<>>, lowered |-> NoProgram, after1 |-> NoProgram, ret0 |-> 2]

\* -------------------------------------------------------------- merge_ret
\* the intermediary is not wired to the return node
merge_retNoEdge(p) ==
    IF HasUse(p, ret, "Merge")
    THEN LET p1 == AddNode(p)
         IN [program |-> PushUse(p1, p1.nodes, "Merge"), merge |-> p1.nodes]
    ELSE [program |-> PushUse(p, ret, "Merge"), merge |-> ret]

\* the return node is handed out again although it is already claimed
merge_retReuse(p) == [program |-> PushUse(p, ret, "Merge"), merge |-> ret]

\* returns the graph after the call and the node handed out
merge_ret(p) ==
    IF HasUse(p, ret, "Merge")
    THEN LET p1 == AddNode(p)
             merge == p1.nodes
             p2 == AddEdge(p1, merge, ret)
             p3 == PushUse(p2, merge, "Merge")
         IN [program |-> p3, merge |-> merge]
    ELSE [program |-> PushUse(p, ret, "Merge"), merge |-> ret]

\* ------------------------------------------------------------ statements
\* parse_scope: a non-branch instruction is pushed to the current block
PushOp ==
    /\ CanLower
    /\ PlainOps(program) < MaxPlainOps
    /\ Top.kind \in {"Loop", "RangeLoop"}
    /\ program' = PushOpTo(program, current_block, [op |-> "Other"])
    /\ UNCHANGED <<current_block, ret, loop_break, temps, stack, status, hist>>

\* the cursor is read but left in place
takeKeeps(cur) == cur

\* self.current_block.take(): what is left in the cursor
take(cur) == None

\* Branch::Return
Return ==
    /\ CanLower
    /\ program' = AddEdge(program, current_block, ret)
    /\ current_block' = take(current_block)
    /\ stack' = ReplaceTop([Top EXCEPT !.scope_ret = TRUE])
    /\ hist' = [hist EXCEPT !.returns = @ \cup {current_block}]
    /\ UNCHANGED <<ret, loop_break, temps, status>>

\* a break that leaves the front of the deque instead of its back
BreakTargetFront(lb) == lb[1]

\* self.loop_break.back()
BreakTarget(lb) == lb[Len(lb)]

\* a break outside every loop leaves the function
BreakOutsideLoopReturns(p, cur) ==
    [status |-> "lowering", program |-> AddEdge(p, cur, ret)]

\* .expect("Can't break outside loop") on an empty deque: the panic comes
\* before add_edge
BreakOutsideLoop(p, cur) == [status |-> PanicBreak, program |-> p]

\* Branch::Break ; loop_break.back().expect("Can't break outside loop")
Break ==
    /\ CanLower
    /\ current_block' = take(current_block)
    /\ IF loop_break = <<>>
       THEN /\ status' = BreakOutsideLoop(program, current_block).status
            /\ program' = BreakOutsideLoop(program, current_block).program
            /\ UNCHANGED <<stack, hist>>
       ELSE /\ program' = AddEdge(program, current_block, BreakTarget(loop_break))
            /\ stack' = ReplaceTop([Top EXCEPT !.scope_break = TRUE])
            /\ hist' = [hist EXCEPT !.breaks = @ \cup
                          {[block |-> current_block,
                            innermost |-> InnermostLoopNext(stack),
                            depth |-> LoopDepth(stack),
                            edges |-> Len(program.edges)]}]
            /\ UNCHANGED status
    /\ UNCHANGED <<ret, loop_break, temps>>

\* ---------------------------------------------------------------- parse_if
\* the else target is taken from the merge block
IfTerminatorElseIsMerge(then, next, merge) ==
    [tag |-> "IfElse", then |-> then,
     or_else |-> IF merge # None THEN merge ELSE next, merge |-> merge]

\* ControlFlow::IfElse { cond, then, or_else: next, merge }
IfTerminator(then, next, merge) ==
    [tag |-> "IfElse", then |-> then, or_else |-> next, merge |-> merge]

ParseIfBegin ==
    /\ CanNest
    /\ LET p1 == AddNode(program)
           then == p1.nodes
           p2 == AddNode(p1)
           next == p2.nodes
           p3 == AddEdge(p2, current_block, then)
           p4 == AddEdge(p3, current_block, next)
       IN /\ program' = p4
          /\ current_block' = then
          /\ stack' = Append(stack, [Frame("If", current_block) EXCEPT
                                       !.then = then, !.next = next])
    /\ UNCHANGED <<ret, loop_break, temps, status, hist>>

\* the conditional never gets a merge
IfMergeNever(is_break, merge) == None

\* let merge = if is_break { None } else { Some(merge) }
IfMerge(is_break, merge) == IF is_break THEN None ELSE merge

ParseIfEnd ==
    /\ status = "lowering"
    /\ Top.kind = "If"
    /\ LET f == Top
           is_break == f.scope_break
           r == IF current_block # None
                THEN [program |-> AddEdge(program, current_block, f.next),
                      merge |-> f.next]
                ELSE merge_ret(program)
           merge == IfMerge(is_break, r.merge)
           p1 == SetControlFlow(r.program, f.current_block,
                    IfTerminator(f.then, f.next, merge))
           p2 == IF merge # None THEN PushUse(p1, merge, "Merge") ELSE p1
       IN /\ program' = p2
          /\ current_block' = f.next
          /\ stack' = Pop
          /\ hist' = IF current_block = None
                     THEN [hist EXCEPT !.funnels = Append(@, r.merge)]
                     ELSE hist
    /\ UNCHANGED <<ret, loop_break, temps, status>>

\* ----------------------------------------------------------- parse_if_else
ParseIfElseBegin ==
    /\ CanNest
    /\ LET p1 == AddNode(program)
           then == p1.nodes
           p2 == AddNode(p1)
           or_else == p2.nodes
           p3 == AddNode(p2)
           next == p3.nodes
           p4 == AddEdge(p3, current_block, then)
           p5 == AddEdge(p4, current_block, or_else)
       IN /\ program' = p5
          /\ current_block' = then
          /\ stack' = Append(stack, [Frame("IfElse", current_block) EXCEPT
                                       !.then = then, !.or_else = or_else,
                                       !.next = next, !.merge = next])
    /\ UNCHANGED <<ret, loop_break, temps, status, hist>>

\* scope_if has been lowered; continue with scope_else
ParseIfElseThenEnd ==
    /\ status = "lowering"
    /\ Top.kind = "IfElse" /\ Top.phase = "then"
    /\ LET f == Top
           r == IF current_block # None
                THEN [program |-> AddEdge(program, current_block, f.next),
                      merge |-> f.merge]
                ELSE merge_ret(program)
       IN /\ program' = r.program
          /\ current_block' = f.or_else
          /\ stack' = ReplaceTop([f EXCEPT !.phase = "else",
                                           !.is_break = f.scope_break,
                                           !.scope_break = FALSE,
                                           !.is_ret = f.scope_ret,
                                           !.scope_ret = FALSE,
                                           !.merge = r.merge])
          /\ hist' = IF current_block = None
                     THEN [hist EXCEPT !.funnels = Append(@, r.merge)]
                     ELSE hist
    /\ UNCHANGED <<ret, loop_break, temps, status>>

\* the conditional never gets a merge
IfElseMergeNever(is_break, merge) == None

\* let merge = if is_break { None } else { Some(merge) }
IfElseMerge(is_break, merge) == IF is_break THEN None ELSE merge

ParseIfElseEnd ==
    /\ status = "lowering"
    /\ Top.kind = "IfElse" /\ Top.phase = "else"
    /\ LET f == Top
           is_break == f.scope_break \/ f.is_break
           r == IF current_block # None
                THEN [program |-> AddEdge(program, current_block, f.next),
                      merge |-> f.merge]
                ELSE merge_ret(program)
           merge == IfElseMerge(is_break, r.merge)
           p1 == SetControlFlow(r.program, f.current_block,
                    [tag |-> "IfElse", then |-> f.then, or_else |-> f.or_else,
                     merge |-> merge])
           p2 == IF merge # None THEN PushUse(p1, merge, "Merge") ELSE p1
       IN /\ program' = p2
          /\ current_block' = f.next
          /\ stack' = Pop
          /\ hist' = IF current_block = None
                     THEN [hist EXCEPT !.funnels = Append(@, r.merge)]
                     ELSE hist
    /\ UNCHANGED <<ret, loop_break, temps, status>>

\* ------------------------------------------------------------- parse_switch
\* case labels: the i-th case carries ConstantScalarValue::UInt(i), i < 2^32,
\* which `val as u32` leaves as it is
CaseLabel(i) == i

\* let case_id = add_node(); add_edge(current_block, case_id); cursor = case_id
StartCase(p, cur) ==
    LET p1 == AddNode(p)
    IN [program |-> AddEdge(p1, cur, p1.nodes), id |-> p1.nodes]

ParseSwitchBegin ==
    /\ CanNest
    /\ \E k \in 0..MaxCases :
         LET p1 == AddNode(program)
             next == p1.nodes
             c == StartCase(p1, current_block)
             f == [Frame("Switch", current_block) EXCEPT !.next = next]
         IN /\ program' = c.program
            /\ current_block' = c.id
            /\ stack' = Append(stack,
                 IF k = 0
                 THEN [f EXCEPT !.phase = "default", !.default = c.id]
                 ELSE [f EXCEPT !.phase = "case", !.body = c.id, !.cases = k - 1])
    /\ UNCHANGED <<ret, loop_break, temps, status, hist>>

\* one case scope has been lowered; continue with the next case or the default
ParseSwitchCaseEnd ==
    /\ status = "lowering"
    /\ Top.kind = "Switch" /\ Top.phase = "case"
    /\ LET f == Top
           is_break == f.scope_break
           p1 == IF current_block # None
                 THEN AddEdge(program, current_block, f.next)
                 ELSE program
           is_ret == IF current_block # None THEN FALSE ELSE ~is_break
           branches == Append(f.branches,
                          [val |-> CaseLabel(Len(f.branches)), id |-> f.body,
                           is_break |-> is_break, is_ret |-> is_ret,
                           returned |-> f.scope_ret])
           c == StartCase(p1, f.current_block)
       IN /\ program' = c.program
          /\ current_block' = c.id
          /\ stack' = ReplaceTop(
               IF f.cases = 0
               THEN [f EXCEPT !.branches = branches, !.scope_break = FALSE,
                              !.scope_ret = FALSE,
                              !.phase = "default", !.default = c.id]
               ELSE [f EXCEPT !.branches = branches, !.scope_break = FALSE,
                              !.scope_ret = FALSE,
                              !.body = c.id, !.cases = f.cases - 1])
    /\ UNCHANGED <<ret, loop_break, temps, status, hist>>

\* a return in a branch is not looked at
SwitchMergeIgnoreReturn(is_break, is_ret) == IF is_break THEN "none" ELSE "next"

\* a break in a branch is not looked at
SwitchMergeIgnoreBreak(is_break, is_ret) == IF is_ret THEN "ret" ELSE "next"

\* which node becomes the merge of the switch
SwitchMerge(is_break, is_ret) ==
    IF is_break THEN "none" ELSE IF is_ret THEN "ret" ELSE "next"

ParseSwitchEnd ==
    /\ status = "lowering"
    /\ Top.kind = "Switch" /\ Top.phase = "default"
    /\ LET f == Top
           is_break_branch == \E i \in 1..Len(f.branches) : f.branches[i].is_break
           is_ret0 == \E i \in 1..Len(f.branches) : f.branches[i].is_ret
           branches == [i \in 1..Len(f.branches) |->
                          <<f.branches[i].val, f.branches[i].id>>]
           is_break_def == f.scope_break
           p1 == IF current_block # None
                 THEN AddEdge(program, current_block, f.next)
                 ELSE program
           is_ret == IF current_block # None THEN is_ret0 ELSE ~is_break_def
           kind == SwitchMerge(is_break_def \/ is_break_branch, is_ret)
           r == IF kind = "none"
                THEN [program |-> p1, merge |-> None]
                ELSE IF kind = "ret"
                THEN merge_ret(p1)
                ELSE [program |-> PushUse(p1, f.next, "Merge"), merge |-> f.next]
           p2 == SetControlFlow(r.program, f.current_block,
                    [tag |-> "Switch", default |-> f.default,
                     branches |-> branches, merge |-> r.merge])
       IN /\ program' = p2
          /\ current_block' = f.next
          /\ stack' = Pop
          /\ hist' = IF kind = "ret"
                     THEN [hist EXCEPT !.funnels = Append(@, r.merge)]
                     ELSE hist
    /\ UNCHANGED <<ret, loop_break, temps, status>>

\* --------------------------------------------------------------- parse_loop
\* the oldest break target is dropped
PopFront(lb) == Tail(lb)

\* self.loop_break.pop_back()
PopBack(lb) == SubSeq(lb, 1, Len(lb) - 1)

ParseLoopBegin ==
    /\ CanNest
    /\ LET p1 == AddNode(program)
           header == p1.nodes
           p2 == AddEdge(p1, current_block, header)
           p3 == AddNode(p2)
           body == p3.nodes
           p4 == AddNode(p3)
           next == p4.nodes
           p5 == AddEdge(p4, header, body)
       IN /\ program' = p5
          /\ loop_break' = Append(loop_break, next)
          /\ current_block' = body
          /\ stack' = Append(stack, [Frame("Loop", current_block) EXCEPT
                                       !.header = header, !.body = body,
                                       !.next = next])
    /\ UNCHANGED <<ret, temps, status, hist>>

\* lowering continues in the header of the loop
LoopCursorHeader(header, next) == header

\* self.current_block = Some(next)
LoopCursor(header, next) == next

\* the back edge is only added when the body can reach the continue target
ContinueEdgesIfOpen(p, cur, continue_target, header) ==
    IF cur # None
    THEN AddEdge(AddEdge(p, cur, continue_target), continue_target, header)
    ELSE p

\* if let Some(current_block) { add_edge(current_block, continue_target) } ;
\* add_edge(continue_target, header)
ContinueEdges(p, cur, continue_target, header) ==
    AddEdge(IF cur # None THEN AddEdge(p, cur, continue_target) ELSE p,
            continue_target, header)

ParseLoopEnd ==
    /\ status = "lowering"
    /\ Top.kind = "Loop"
    /\ LET f == Top
           p1 == AddNode(program)
           continue_target == p1.nodes
           p2 == PushUse(p1, continue_target, "ContinueTarget")
           p4 == ContinueEdges(p2, current_block, continue_target, f.header)
           p5 == SetControlFlow(p4, f.header,
                    [tag |-> "Loop", body |-> f.body,
                     continue_target |-> continue_target, merge |-> f.next])
           p6 == PushUse(p5, f.next, "Merge")
       IN /\ program' = p6
          /\ loop_break' = PopBack(loop_break)
          /\ current_block' = LoopCursor(f.header, f.next)
          /\ stack' = Pop
    /\ UNCHANGED <<ret, temps, status, hist>>

\* ----------------------------------------------------------- parse_for_loop
\* Program::insert_phi: one entry per predecessor of the block
insert_phi(p, block, id) ==
    LET preds == predecessors(p, block)
        phi == [out |-> id,
                entries |-> [k \in 1..Len(preds) |->
                               [block |-> preds[k], value |-> id]]]
    IN [p EXCEPT !.blocks[block].phi_nodes = Append(@, phi)]

\* the induction variable of the loop whose header will be node h
LocalVar(h) == [kind |-> "Local", id |-> h]
ConstOne == [kind |-> "ConstantScalar", value |-> 1]
GivenStep == [kind |-> "Input", id |-> "step"]

ParseForLoopBegin ==
    /\ CanNest
    /\ LET i == LocalVar(program.nodes + 1)
             assign == [op |-> "Assign", input |-> "start", out |-> i]
             p0 == PushOpTo(program, current_block, assign)
             p1 == AddNode(p0)
             header == p1.nodes
             p2 == AddEdge(p1, current_block, header)
             p3 == AddNode(p2)
             body == p3.nodes
             p4 == AddNode(p3)
             next == p4.nodes
             p5 == AddEdge(p4, header, body)
             p6 == AddEdge(p5, header, next)
         IN /\ program' = p6
            /\ loop_break' = Append(loop_break, next)
            /\ current_block' = body
            /\ stack' = Append(stack, [Frame("RangeLoop", current_block) EXCEPT
                                         !.header = header, !.body = body,
                                         !.next = next])
    /\ UNCHANGED <<ret, temps, status, hist>>

\* a body without loopback path is given a fresh exit block, as parse_loop
\* gives its continue target
ForLoopExitFresh(p, cur) ==
    IF cur = None
    THEN [ok |-> TRUE, program |-> AddNode(p), current_block |-> p.nodes + 1]
    ELSE [ok |-> TRUE, program |-> p, current_block |-> cur]

\* self.current_block.expect("For loop has no loopback path")
ForLoopExit(p, cur) == [ok |-> cur # None, program |-> p, current_block |-> cur]

\* the exit block is never taken for a Merge block
ExitIsMergeNever(p, exit) == FALSE

\* self.program[current_block].block_use.contains(&BlockUse::Merge)
ExitIsMerge(p, exit) == HasUse(p, exit, "Merge")

\* the comparison is always strict
CompareOpLower(inclusive) == "Lower"

\* match range_loop.inclusive { true => LowerEqual, false => Lower }
CompareOp(inclusive) == IF inclusive THEN "LowerEqual" ELSE "Lower"

\* range_loop.inclusive and range_loop.step only reach the graph in the
\* instructions built after the body is lowered; they are drawn there.
\* block that receives the increment `i = i + step`
IncrementBlock(current, continue_target) == current

ParseForLoopEnd ==
    /\ status = "lowering"
    /\ Top.kind = "RangeLoop"
    /\ loop_break' = PopBack(loop_break)
    /\ LET x == ForLoopExit(program, current_block)
       IN IF ~x.ok
          THEN /\ status' = PanicForLoop
               /\ UNCHANGED <<program, current_block, temps, stack, hist>>
          ELSE \E inclusive \in BOOLEAN, range_step \in {"None", "Some"} :
               LET f == Top
                   exit == x.current_block
                   step == IF range_step = "None" THEN ConstOne ELSE GivenStep
                   i == LocalVar(f.header)
                   exit_merge == ExitIsMerge(x.program, exit)
                   p1 == IF exit_merge
                         THEN AddEdge(AddNode(x.program), exit, x.program.nodes + 1)
                         ELSE x.program
                   continue_target == IF exit_merge THEN p1.nodes ELSE exit
                   p2 == AddEdge(p1, continue_target, f.header)
                   p3 == PushUse(p2, continue_target, "ContinueTarget")
                   p4 == PushUse(p3, f.next, "Merge")
                   p5 == insert_phi(p4, f.header, i)
                   tmp == [kind |-> "Temp", id |-> temps + 1]
                   cmp == [op |-> CompareOp(inclusive),
                           lhs |-> i, rhs |-> "end", out |-> tmp]
                   p6 == PushOpTo(p5, f.header, cmp)
                   p7 == SetControlFlow(p6, f.header,
                            [tag |-> "LoopBreak", break_cond |-> tmp,
                             body |-> f.body,
                             continue_target |-> continue_target,
                             merge |-> f.next])
                   add == [op |-> "Add", lhs |-> i, rhs |-> step, out |-> i]
                   p8 == PushOpTo(p7, IncrementBlock(exit, continue_target), add)
               IN /\ program' = p8
                  /\ temps' = temps + 1
                  /\ current_block' = f.next
                  /\ stack' = Pop
                  /\ hist' = [hist EXCEPT !.ranges = @ \cup
                                {[header |-> f.header, exit |-> exit,
                                  exit_merge |-> exit_merge, i |-> i,
                                  entry |-> f.current_block,
                                  inclusive |-> inclusive,
                                  step |-> range_step]}]
                  /\ UNCHANGED status
    /\ UNCHANGED ret

\* ----------------------------------------------------- split_critical_edges
\* if *id == from { *id = to }
update(id, from, to) == IF id = from THEN to ELSE id

update_control_flow(p, block, from, to) ==
    LET cf == p.blocks[block].control_flow
    IN IF cf.tag = "IfElse"
       THEN SetControlFlow(p, block,
              [cf EXCEPT !.then = update(@, from, to),
                         !.or_else = update(@, from, to)])
       ELSE IF cf.tag = "Switch"
       THEN SetControlFlow(p, block,
              [cf EXCEPT !.default = update(@, from, to),
                         !.branches = [k \in 1..Len(@) |->
                                         <<@[k][1], update(@[k][2], from, to)>>]])
       ELSE p

\* the phi entries are left as they are
update_phiKeep(p, block, from, to) == p

update_phi(p, block, from, to) ==
    [p EXCEPT !.blocks[block].phi_nodes =
        [k \in 1..Len(@) |->
            [@[k] EXCEPT !.entries =
                [j \in 1..Len(@) |->
                    [@[j] EXCEPT !.block = update(@, from, to)]]]]]

\* edges(block) yields the most recently added edge first
RECURSIVE Descending(_)
Descending(S) ==
    IF S = {} THEN <<>>
    ELSE LET m == CHOOSE x \in S : \A y \in S : y <= x
         IN <<m>> \o Descending(S \ {m})

\* off by one: only targets with more than two predecessors count
IsCriticalAboveTwo(p, e) == Len(predecessors(p, p.edges[e][2])) > 2

\* every edge of a branching block counts
IsCriticalAlways(p, e) == Len(predecessors(p, p.edges[e][2])) > 0

\* an edge of `block` is split when its target has more than one predecessor
IsCritical(p, e) == Len(predecessors(p, p.edges[e][2])) > 1

\* the split edge is not removed
RewireKeepsEdge(p, edge, block, new_block, successor) ==
    AddEdge(AddEdge(p, block, new_block), new_block, successor)

\* remove_edge(edge); add_edge(block, new_block); add_edge(new_block,
\* successor): remove_edge frees the edge slot and the following add_edge
\* takes it again
Rewire(p, edge, block, new_block, successor) ==
    AddEdge([p EXCEPT !.edges[edge] = <<block, new_block>>],
            new_block, successor)

\* body of `for (edge, successor) in crit`
RECURSIVE SplitEdges(_, _, _)
SplitEdges(acc, block, crit) ==
    IF crit = <<>> THEN acc
    ELSE LET p == acc.program
             edge == Head(crit)
             successor == p.edges[edge][2]
             p1 == AddNode(p)
             new_block == p1.nodes
             p3 == Rewire(p1, edge, block, new_block, successor)
             p4 == update_phi(p3, successor, block, new_block)
             p5 == update_control_flow(p4, block, successor, new_block)
         IN SplitEdges([program |-> p5,
                        splits |-> Append(acc.splits,
                                     [block |-> block, successor |-> successor,
                                      new_block |-> new_block,
                                      before |-> p.blocks[block].control_flow])],
                       block, Tail(crit))

\* body of `for block in self.node_ids()`
SplitBlock(acc, block) ==
    LET p == acc.program
        successors == Descending(OutEdges(p, block))
    IN IF Len(successors) > 1
       THEN SplitEdges(acc, block,
                       SelectSeq(successors, LAMBDA e : IsCritical(p, e)))
       ELSE acc

\* node_ids() is collected before the loop: blocks 1..n of the input graph
RECURSIVE SplitNodes(_, _, _)
SplitNodes(acc, block, n) ==
    IF block > n THEN acc
    ELSE SplitNodes(SplitBlock(acc, block), block + 1, n)

split_critical_edges(p) ==
    SplitNodes([program |-> p, splits |-> <<>>], 1, p.nodes)

\* run_opt: the pass runs once after the function body is lowered
RunSplitCriticalEdges ==
    /\ status = "lowered"
    /\ LET r == split_critical_edges(program)
       IN /\ program' = r.program
          /\ hist' = [hist EXCEPT !.splits = r.splits, !.lowered = program]
    /\ status' = "split1"
    /\ UNCHANGED <<current_block, ret, loop_break, temps, stack>>

\* the pass is run a second time on its own result
RunSplitCriticalEdgesAgain ==
    /\ status = "split1"
    /\ program' = split_critical_edges(program).program
    /\ hist' = [hist EXCEPT !.after1 = program]
    /\ status' = "split2"
    /\ UNCHANGED <<current_block, ret, loop_break, temps, stack>>

\* ------------------------------------------------------------ parse_graph
\* end of the function body: an open cursor falls through to the return node
ParseGraphEnd ==
    /\ status = "lowering"
    /\ Top.kind = "Root"
    /\ program' = IF current_block # None
                  THEN AddEdge(program, current_block, ret)
                  ELSE program
    /\ status' = "lowered"
    /\ UNCHANGED <<current_block, ret, loop_break, temps, stack, hist>>

Next ==
    \/ ParseLoopBegin
    \/ ParseLoopEnd
    \/ ParseForLoopBegin
    \/ ParseForLoopEnd
    \/ ParseIfBegin
    \/ ParseIfEnd
    \/ ParseIfElseBegin
    \/ ParseIfElseThenEnd
    \/ ParseIfElseEnd
    \/ ParseSwitchBegin
    \/ ParseSwitchCaseEnd
    \/ ParseSwitchEnd
    \/ PushOp
    \/ Return
    \/ Break
    \/ RunSplitCriticalEdges
    \/ RunSplitCriticalEdgesAgain
    \/ ParseGraphEnd

Spec == Init /\ [][Next]_vars

\* ------------------------------------------ the pass on arbitrary graphs
\* split_critical_edges takes any graph: here it is given drawn graphs whose
\* phi entries name, as insert_phi leaves them, the predecessors of their block.
EdgeOfCode(c, n) == <<((c - 1) \div n) + 1, ((c - 1) % n) + 1>>

RECURSIVE InsertPhis(_, _)
InsertPhis(p, n) ==
    IF n = 0 THEN p
    ELSE LET q == InsertPhis(p, n - 1)
         IN IF InDegree(q, n) > 0 THEN insert_phi(q, n, LocalVar(n)) ELSE q

\* a block with two outgoing edges branches on them
RECURSIVE SetBranches(_, _)
SetBranches(p, n) ==
    IF n = 0 THEN p
    ELSE LET q == SetBranches(p, n - 1)
             out == Descending(OutEdges(q, n))
         IN IF Len(out) = 2
            THEN SetControlFlow(q, n, IfTerminator(q.edges[out[2]][2],
                                                   q.edges[out[1]][2], None))
            ELSE q

DrawnGraph(n, codes, dup) ==
    LET order == Descending(codes)
        edges == [k \in 1..Len(order) |-> EdgeOfCode(order[k], n)]
        all == IF dup = 0 THEN edges ELSE Append(edges, EdgeOfCode(dup, n))
        p == [nodes |-> n, edges |-> all,
              blocks |-> [k \in 1..n |->
                            IF k = 2 THEN [DefaultBlock EXCEPT !.control_flow = CFReturn]
                            ELSE DefaultBlock]]
    IN InsertPhis(SetBranches(p, n), n)

InitGraph ==
    /\ \E n \in 2..MaxGraphNodes :
         \E codes \in SUBSET (1..(n * n)) :
            /\ Cardinality(codes) <= MaxGraphEdges
            /\ \A c \in codes : EdgeOfCode(c, n)[1] # 2
            /\ \E dup \in codes \cup {0} :
                  program = DrawnGraph(n, codes, dup)
    /\ current_block = None
    /\ ret = 2
    /\ loop_break = <<>>
    /\ temps = 0
    /\ stack = <<Frame("Root", 1)>>
    /\ status = "lowered"
    /\ hist = [returns |-> {}, breaks |-> {}, funnels |-> <<>>, ranges |-> {},
               splits |-> <<>>, lowered |-> NoProgram, after1 |-> NoProgram, ret0 |-> 2]

NextGraph ==
    \/ RunSplitCriticalEdges
    \/ RunSplitCriticalEdgesAgain

SpecGraph == InitGraph /\ [][NextGraph]_vars

\* ------------------------------------------------------------ observation
Nodes == 1..program.nodes
CF(n) == program.blocks[n].control_flow

\* the direct-successor references of a terminator, field by field
RefFields(cf) ==
    IF cf.tag = "IfElse" THEN <<cf.then, cf.or_else>>
    ELSE IF cf.tag = "Switch"
    THEN <<cf.default>> \o [k \in 1..Len(cf.branches) |-> cf.branches[k][2]]
    ELSE IF cf.tag = "Loop" THEN <<cf.body>>
    ELSE IF cf.tag = "LoopBreak" THEN <<cf.body, cf.merge>>
    ELSE <<>>

SuccRefs(cf) == Range(RefFields(cf))

\* the merge field of a terminator (None when it has none)
MergeOf(cf) ==
    IF cf.tag \in {"IfElse", "Switch", "Loop", "LoopBreak"} THEN cf.merge ELSE None

\* nodes allocated by merge_ret
FunnelIntermediaries == Range(hist.funnels) \ {ret}

HasCriticalEdge(p) ==
    \E e \in 1..Len(p.edges) :
        OutDegree(p, p.edges[e][1]) > 1 /\ InDegree(p, p.edges[e][2]) > 1

\* blocks holding the increment of induction variable i
IncrementBlocks(i) ==
    {n \in Nodes : \E k \in 1..Len(program.blocks[n].ops) :
        /\ program.blocks[n].ops[k].op = "Add"
        /\ program.blocks[n].ops[k].out = i}

\* the step that finishes lowering the body of a range loop that left the
\* cursor unset
ForLoopEndsDiverged ==
    /\ status = "lowering"
    /\ Top.kind = "RangeLoop"
    /\ current_block = None
    /\ loop_break' # loop_break

\* ------------------------------------------------------------------ claims

\* C1: after split_critical_edges has run once on the lowered graph, no edge
\* has a source with more than one outgoing edge and a target with more than
\* one incoming edge.
NoCriticalEdgeAfterSplit ==
    status = "split1" => ~HasCriticalEdge(program)

\* a lowered graph with critical edges has been through the pass
NoCriticalEdgeAfterSplit_Witness ==
    /\ status = "split1"
    /\ Len(hist.splits) >= 2
    /\ HasCriticalEdge(hist.lowered)

\* C2: a second run of split_critical_edges directly after the first leaves
\* the whole graph (nodes, edges, terminators, phi entries) as it was.
SecondSplitIsNoOp ==
    status = "split2" => program = hist.after1

\* the second run has happened on a graph in which the first run split edges
SecondSplitIsNoOp_Witness ==
    /\ status = "split2"
    /\ hist.splits # <<>>
    /\ hist.after1 # hist.lowered

\* C3: the increment of a range loop is in the block flagged Continue-target
\* for that loop (the continue_target of the header's terminator), and in no
\* other block.
IncrementInContinueTarget ==
    \A r \in hist.ranges :
        \A n \in IncrementBlocks(r.i) :
            /\ n = CF(r.header).continue_target
            /\ HasUse(program, n, "ContinueTarget")

\* C4 as claimed: when the body of a range loop leaves the cursor unset,
\* lowering goes on without aborting, the back edge into the header is
\* created and the cursor ends at the loop's next block.
DivergedRangeLoopCompletes ==
    [][ForLoopEndsDiverged =>
          /\ status' = "lowering"
          /\ current_block' = Top.next
          /\ InDegree(program', Top.header) > InDegree(program, Top.header)]_vars

\* C4 as amended: when the body of a range loop leaves the cursor unset,
\* lowering aborts with "For loop has no loopback path"; the graph is left as
\* the body left it, so no back edge into the header is created.
DivergedRangeLoopAborts ==
    [][ForLoopEndsDiverged =>
          /\ status' = PanicForLoop
          /\ program' = program
          /\ InDegree(program', Top.header) = 1]_vars

\* a range loop whose body ended in return or break has aborted
DivergedRangeLoopAborts_Witness ==
    /\ status = PanicForLoop
    /\ Top.kind = "RangeLoop"
    /\ current_block = None
    /\ OutDegree(program, Top.body) >= 1

\* C5: a Break adds exactly one edge, from the current block to the next
\* block of the innermost loop that syntactically encloses it (the outer
\* loop's next once an inner loop has been finished), and nothing else.
BreakTargetsInnermostLoop ==
    [][hist'.breaks # hist.breaks =>
          /\ InnermostLoopNext(stack) # None
          /\ program' = AddEdge(program, current_block, InnermostLoopNext(stack))]_vars

\* a break inside two nested loops, and a break in the outer loop lowered at
\* the next block of a finished inner loop
BreakTargetsInnermostLoop_Witness ==
    /\ \E b \in hist.breaks : b.depth = 2
    /\ \E c \in hist.breaks :
          /\ c.depth = 1
          /\ \E h \in Nodes : CF(h).tag \in {"Loop", "LoopBreak"}
                              /\ CF(h).merge = c.block
          /\ <<c.block, c.innermost>> \in Range(program.edges)

\* C6: the canonical return node never changes, every block at which a
\* Return was lowered has an edge directly to it, and every intermediary
\* allocated by merge_ret has exactly one outgoing edge, to the return node;
\* before and after the critical-edge pass.
ReturnFunnel ==
    /\ ret = hist.ret0
    /\ CF(ret).tag = "Return"
    /\ \A b \in hist.returns : <<b, ret>> \in Range(program.edges)
    /\ \A m \in FunnelIntermediaries :
          /\ OutDegree(program, m) = 1
          /\ Successors(program, m) = {ret}

\* returns and an intermediary exist and the pass has split edges
ReturnFunnel_Witness ==
    /\ status = "split1"
    /\ hist.splits # <<>>
    /\ hist.returns # {}
    /\ FunnelIntermediaries # {}

\* C7 as claimed: after lowering, every block flagged Merge other than the
\* intermediaries allocated by merge_ret has at least two incoming edges.
MergeHasTwoPredecessors ==
    status = "lowered" =>
        \A n \in Nodes :
            HasUse(program, n, "Merge") /\ n \notin FunnelIntermediaries
                => InDegree(program, n) >= 2

\* C7 as amended: the next block that a conditional, or a switch with at
\* least one case, takes as its merge is flagged Merge and has at least two
\* incoming edges; the next block of a loop is flagged Merge whatever its
\* in-degree.
ConditionalMergeHasTwoPredecessors ==
    \A b \in Nodes :
        /\ ( /\ \/ CF(b).tag = "IfElse"
                \/ CF(b).tag = "Switch" /\ Len(CF(b).branches) >= 1
             /\ CF(b).merge # None
             /\ CF(b).merge \notin Range(hist.funnels) )
           => /\ HasUse(program, CF(b).merge, "Merge")
              /\ InDegree(program, CF(b).merge) >= 2
        /\ CF(b).tag \in {"Loop", "LoopBreak"}
           => HasUse(program, CF(b).merge, "Merge")

\* a conditional and a switch with a case both merge at their next block, and
\* a loop's next block is flagged Merge with fewer than two incoming edges
ConditionalMergeHasTwoPredecessors_Witness ==
    /\ status = "lowered"
    /\ \E b \in Nodes : /\ CF(b).tag = "IfElse"
                        /\ CF(b).merge # None
                        /\ CF(b).merge \notin Range(hist.funnels)
    /\ \E b \in Nodes : /\ CF(b).tag = "Switch"
                        /\ Len(CF(b).branches) >= 1
                        /\ CF(b).merge # None
                        /\ CF(b).merge \notin Range(hist.funnels)

\* C8: the merge nodes named by the terminators of distinct blocks are
\* pairwise distinct, and merge_ret never hands out the same node twice.
DistinctMerges ==
    /\ \A a, b \in Nodes :
          (a # b /\ MergeOf(CF(a)) # None /\ MergeOf(CF(b)) # None)
              => MergeOf(CF(a)) # MergeOf(CF(b))
    /\ \A i, j \in 1..Len(hist.funnels) :
          i # j => hist.funnels[i] # hist.funnels[j]

\* two terminators merge at funnel nodes and a third at its own next block
DistinctMerges_Witness ==
    /\ Len(hist.funnels) >= 2
    /\ \E a, b \in Nodes :
          /\ a # b
          /\ MergeOf(CF(a)) = ret
          /\ MergeOf(CF(b)) \in FunnelIntermediaries

\* C9: for every critical edge block -> successor that the pass replaced by
\* block -> new_block -> successor, each successor reference of the block's
\* terminator that named successor names new_block afterwards.
SplitRewritesTerminator ==
    status = "split1" =>
        \A k \in 1..Len(hist.splits) :
            LET s == hist.splits[k]
                before == RefFields(s.before)
                after == RefFields(CF(s.block))
            IN \A j \in 1..Len(before) :
                  before[j] = s.successor => after[j] = s.new_block

\* C11: on a graph in which every phi entry names a predecessor of its
\* block, the pass leaves every phi entry naming a predecessor: an entry
\* that named the source of a split edge into its block names the block
\* inserted on that edge, every other entry and every value is unchanged.
PhiEntriesFollowSplit ==
    status = "split1" =>
        \A t \in 1..hist.lowered.nodes :
            LET old == hist.lowered.blocks[t].phi_nodes
                new == program.blocks[t].phi_nodes
            IN /\ Len(new) = Len(old)
               /\ \A k \in 1..Len(old) :
                     /\ new[k].out = old[k].out
                     /\ Len(new[k].entries) = Len(old[k].entries)
                     /\ \A j \in 1..Len(old[k].entries) :
                           LET o == old[k].entries[j]
                               e == new[k].entries[j]
                               on == {x \in 1..Len(hist.splits) :
                                        /\ hist.splits[x].block = o.block
                                        /\ hist.splits[x].successor = t}
                           IN /\ e.value = o.value
                              /\ Contains(predecessors(program, t), e.block)
                              /\ IF on = {} THEN e.block = o.block
                                 ELSE \E x \in on :
                                        e.block = hist.splits[x].new_block

\* a phi entry named the source of an edge that the pass split
PhiEntriesFollowSplit_Witness ==
    /\ status = "split1"
    /\ \E x \in 1..Len(hist.splits) :
          LET s == hist.splits[x]
          IN /\ \E k \in 1..Len(hist.lowered.blocks[s.successor].phi_nodes) :
                   \E j \in 1..Len(hist.lowered.blocks[s.successor].phi_nodes[k].entries) :
                      /\ hist.lowered.blocks[s.successor].phi_nodes[k].entries[j].block
                            = s.block
                      /\ program.blocks[s.successor].phi_nodes[k].entries[j].block
                            = s.new_block
             /\ \E t \in 1..hist.lowered.nodes :
                   /\ hist.lowered.blocks[t].phi_nodes # <<>>
                   /\ program.blocks[t].phi_nodes = hist.lowered.blocks[t].phi_nodes

\* the terminator of block n after the step
CFAfter(n) == program'.blocks[n].control_flow

\* what merge_ret hands out on program p, seen in the program after the step
IsFunnelAfter(p, merge) ==
    /\ merge # None
    /\ HasUse(program', merge, "Merge")
    /\ IF HasUse(p, ret, "Merge")
       THEN /\ merge > p.nodes
            /\ Successors(program', merge) = {ret}
            /\ OutDegree(program', merge) = 1
       ELSE merge = ret

\* the step that finishes lowering a switch, and what its scopes did
SwitchEnds ==
    /\ status = "lowering"
    /\ Top.kind = "Switch" /\ Top.phase = "default"
    /\ stack' = Pop
SwitchBroke ==
    Top.scope_break \/ \E i \in 1..Len(Top.branches) : Top.branches[i].is_break
SwitchReturned ==
    Top.scope_ret \/ \E i \in 1..Len(Top.branches) : Top.branches[i].returned

\* C12: when the lowering of a switch finishes, its merge is None if a
\* case or the default contains a break (then next is not flagged Merge and
\* no terminator references next); else the funnel of merge_ret if a case or
\* the default ended in return; else next, flagged Merge.
SwitchMergePolicy ==
    [][SwitchEnds =>
        LET f == Top
            cf == CFAfter(f.current_block)
        IN /\ cf.tag = "Switch"
           /\ IF SwitchBroke
              THEN /\ cf.merge = None
                   /\ ~HasUse(program', f.next, "Merge")
                   /\ \A n \in 1..program'.nodes :
                         /\ ~Contains(RefFields(CFAfter(n)), f.next)
                         /\ MergeOf(CFAfter(n)) # f.next
                   /\ program'.blocks[ret].block_use = program.blocks[ret].block_use
                   /\ program'.nodes = program.nodes
              ELSE IF SwitchReturned
              THEN /\ IsFunnelAfter(program, cf.merge)
                   /\ ~HasUse(program', f.next, "Merge")
              ELSE /\ cf.merge = f.next
                   /\ HasUse(program', f.next, "Merge")]_vars

\* the block before the first case (or the default) of a switch is its next
SwitchNext(cf) ==
    (IF cf.branches = <<>> THEN cf.default ELSE cf.branches[1][2]) - 1

\* a finished switch with a breaking scope and a fall-through edge into its
\* next, which is the cursor
SwitchMergePolicy_Witness ==
    /\ status = "lowering"
    /\ current_block # None
    /\ \E n \in Nodes :
          /\ CF(n).tag = "Switch"
          /\ CF(n).merge = None
          /\ CF(n).branches # <<>>
          /\ SwitchNext(CF(n)) = current_block
          /\ InDegree(program, current_block) > 0
          /\ ~HasUse(program, current_block, "Merge")

\* the steps that finish the first and the second scope of a two-branch
\* conditional
IfElseThenEnds ==
    /\ status = "lowering"
    /\ Top.kind = "IfElse" /\ Top.phase = "then"
    /\ Len(stack') = Len(stack)
    /\ stack'[Len(stack')].phase = "else"
IfElseEnds ==
    /\ status = "lowering"
    /\ Top.kind = "IfElse" /\ Top.phase = "else"
    /\ stack' = Pop

\* the scope just lowered ended in return: its last block got the edge to ret
ScopeReturned ==
    /\ Top.scope_ret
    /\ current_block = None
    /\ program.edges # <<>>
    /\ program.edges[Len(program.edges)][2] = ret

HasEdge(p, s, t) == Contains(p.edges, <<s, t>>)

\* a node that funnels into ret: ret itself or an intermediary of merge_ret
IsFunnel(p, merge) ==
    /\ merge # None
    /\ HasUse(p, merge, "Merge")
    /\ \/ merge = ret
       \/ /\ merge \in FunnelIntermediaries
          /\ Successors(p, merge) = {ret}
          /\ OutDegree(p, merge) = 1

\* C13: a two-branch conditional of which exactly one branch ends in return
\* and the other falls through, without break, gets as merge the funnel of
\* merge_ret (ret, then flagged Merge, if ret was not flagged; else a fresh
\* block with an edge to ret); the returning branch has an edge to ret and
\* the other branch an edge to next.
OneBranchReturnsMergeIsFunnel ==
    [][/\ IfElseThenEnds /\ Top.scope_ret =>
            /\ ScopeReturned
            /\ IsFunnelAfter(program, stack'[Len(stack')].merge)
       /\ IfElseEnds /\ Top.is_ret /\ current_block # None =>
            LET cf == CFAfter(Top.current_block)
            IN /\ cf = [tag |-> "IfElse", then |-> Top.then,
                        or_else |-> Top.or_else, merge |-> Top.merge]
               /\ IsFunnel(program', cf.merge)
               /\ HasEdge(program', current_block, Top.next)
               /\ InDegree(program', Top.next) = 1
       /\ IfElseEnds /\ Top.scope_ret /\ ~Top.is_ret /\ ~Top.is_break =>
            LET cf == CFAfter(Top.current_block)
            IN /\ cf.tag = "IfElse" /\ cf.then = Top.then
               /\ cf.or_else = Top.or_else
               /\ ScopeReturned
               /\ IsFunnelAfter(program, cf.merge)
               /\ InDegree(program', Top.next) = 1
               /\ \A e \in 1..Len(program'.edges) :
                     program'.edges[e][2] = Top.next =>
                        program'.edges[e][1] # Top.current_block]_vars

\* two finished two-branch conditionals with one returning and one
\* falling-through branch: one merges in ret, the other in an intermediary
OneBranchReturnsMergeIsFunnel_Witness ==
    /\ status = "lowering"
    /\ \E n, m \in Nodes :
          /\ CF(n).tag = "IfElse" /\ CF(m).tag = "IfElse"
          /\ CF(n).merge = ret
          /\ CF(m).merge \in FunnelIntermediaries
          /\ InDegree(program, CF(n).or_else + 1) = 1
          /\ InDegree(program, CF(m).or_else + 1) = 1
          /\ hist.breaks = {}

\* the steps that start and finish the lowering of a single-branch conditional
IfBegins ==
    /\ status = "lowering"
    /\ Len(stack') = Len(stack) + 1
    /\ stack'[Len(stack')].kind = "If"
IfEnds ==
    /\ status = "lowering"
    /\ Top.kind = "If"
    /\ stack' = Pop

\* C14: a single-branch conditional with a straight-line body, started in
\* any open block entry, adds exactly the blocks then and next and exactly
\* the edges entry->then, entry->next, then->next, sets entry's terminator to
\* IfElse{then, or_else = next, merge = next}, flags next Merge and leaves
\* the edges, flags and terminators of all other earlier blocks as they were.
StraightLineIfFrame ==
    [][/\ IfBegins =>
            LET then == program.nodes + 1
                next == program.nodes + 2
            IN /\ program'.nodes = next
               /\ program'.edges = program.edges \o
                     << <<current_block, then>>, <<current_block, next>> >>
               /\ program'.blocks = program.blocks \o <<DefaultBlock, DefaultBlock>>
               /\ stack'[Len(stack')].then = then
               /\ stack'[Len(stack')].next = next
               /\ stack'[Len(stack')].current_block = current_block
               /\ current_block' = then
       /\ IfEnds /\ current_block = Top.then =>
            LET f == Top
            IN /\ program'.nodes = program.nodes
               /\ program'.edges = Append(program.edges, <<f.then, f.next>>)
               /\ \A n \in 1..program.nodes :
                     IF n = f.current_block
                     THEN program'.blocks[n] =
                            [program.blocks[n] EXCEPT !.control_flow =
                               [tag |-> "IfElse", then |-> f.then,
                                or_else |-> f.next, merge |-> f.next]]
                     ELSE IF n = f.next
                     THEN program'.blocks[n] =
                            [DefaultBlock EXCEPT !.block_use = <<"Merge">>]
                     ELSE program'.blocks[n] = program.blocks[n]
               /\ program.blocks[f.then] = DefaultBlock
               /\ program.blocks[f.next] = DefaultBlock
               /\ f.next = program.nodes /\ f.then = program.nodes - 1
               /\ OutEdges(program, f.then) = {}
               /\ current_block' = f.next]_vars

\* a finished single-branch conditional with a straight-line body that
\* started in a block other than the entry of the graph, itself a Merge block
StraightLineIfFrame_Witness ==
    /\ status = "lowering"
    /\ \E n \in Nodes \ {1} :
          /\ HasUse(program, n, "Merge")
          /\ CF(n).tag = "IfElse"
          /\ CF(n).or_else = CF(n).then + 1
          /\ CF(n).merge = CF(n).or_else
          /\ current_block = CF(n).or_else
          /\ program.nodes = CF(n).or_else
          /\ program.blocks[CF(n).then] = DefaultBlock
          /\ Successors(program, CF(n).then) = {CF(n).or_else}
          /\ Successors(program, n) = {CF(n).then, CF(n).or_else}

\* C15: a break lowered while the break-target stack is empty aborts with
\* the panic of expect (no typed error, nothing runs afterwards) and adds
\* no edge and no node.
BreakOutsideLoopAborts ==
    [][/\ Break /\ loop_break = <<>> =>
            /\ status' = PanicBreak
            /\ program' = program
       /\ status' = PanicBreak /\ status # PanicBreak =>
            /\ loop_break = <<>>
            /\ program' = program
       /\ status = PanicBreak => FALSE]_vars

\* the abort happened inside a conditional, after a loop had been lowered
\* and its break target popped
BreakOutsideLoopAborts_Witness ==
    /\ status = PanicBreak
    /\ current_block = None
    /\ Len(stack) > 1
    /\ \E n \in Nodes : CF(n).tag = "Loop"

IsPrefix(a, b) == Len(a) <= Len(b) /\ SubSeq(b, 1, Len(a)) = a

\* C16: no step of the lowering or of the critical-edge pass removes a node:
\* the node count never shrinks and every node id handed out earlier still
\* denotes its block, whose instructions and flags are only extended.
NodesNeverRemoved ==
    [][/\ program'.nodes >= program.nodes
       /\ Len(program'.blocks) = program'.nodes
       /\ \A n \in 1..program.nodes :
             /\ IsPrefix(program.blocks[n].ops, program'.blocks[n].ops)
             /\ IsPrefix(program.blocks[n].block_use, program'.blocks[n].block_use)
             /\ Len(program'.blocks[n].phi_nodes) >= Len(program.blocks[n].phi_nodes)
       /\ \A e \in 1..Len(program'.edges) :
             /\ program'.edges[e][1] \in 1..program'.nodes
             /\ program'.edges[e][2] \in 1..program'.nodes]_vars

\* the pass has removed edges and inserted blocks, and the blocks lowered
\* before it, some with instructions and some flagged, are all still there
NodesNeverRemoved_Witness ==
    /\ status = "split1"
    /\ program.nodes > hist.lowered.nodes
    /\ \A n \in 1..hist.lowered.nodes :
          /\ program.blocks[n].ops = hist.lowered.blocks[n].ops
          /\ program.blocks[n].block_use = hist.lowered.blocks[n].block_use
    /\ \E n \in 1..hist.lowered.nodes : program.blocks[n].ops # <<>>
    /\ \E n \in 1..hist.lowered.nodes : program.blocks[n].block_use # <<>>

IsLoopKind(k) == k \in {"Loop", "RangeLoop"}
IsBranchKind(k) == k \in {"If", "IfElse", "Switch"}
TopAfter == stack'[Len(stack')]

\* C17: while the body of a loop or range loop is lowered the last entry of
\* the break-target stack is that loop's next; when the lowering of a
\* construct completes the stack is what it was when the construct was
\* entered; conditionals and switches neither push nor pop.
BreakStackDiscipline ==
    [][/\ status' = "lowering" /\ IsLoopKind(TopAfter.kind) =>
            /\ loop_break' # <<>>
            /\ BreakTarget(loop_break') = TopAfter.next
       /\ status' = "lowering" /\ loop_break' # <<>> =>
            BreakTarget(loop_break') = InnermostLoopNext(stack')
       /\ status' = "lowering" /\ stack' = Pop =>
            loop_break' = Top.entered
       /\ Len(stack') = Len(stack) + 1 =>
            /\ TopAfter.entered = loop_break
            /\ IF IsLoopKind(TopAfter.kind)
               THEN loop_break' = Append(loop_break, TopAfter.next)
               ELSE loop_break' = loop_break
       /\ IsBranchKind(Top.kind) /\ Len(stack') <= Len(stack) =>
            loop_break' = loop_break]_vars

\* inside the body of an outer loop an inner loop has been lowered
\* completely and the stack again holds the outer loop's next only
BreakStackDiscipline_Witness ==
    /\ status = "lowering"
    /\ IsLoopKind(Top.kind)
    /\ loop_break = <<Top.next>>
    /\ \E n \in Nodes :
          /\ CF(n).tag \in {"Loop", "LoopBreak"}
          /\ CF(n).merge = current_block
          /\ CF(n).merge # Top.next

\* the step that ends the handler of a construct, by completing or aborting
ConstructEnds ==
    \/ ParseIfEnd
    \/ ParseIfElseEnd
    \/ ParseSwitchEnd
    \/ ParseLoopEnd
    \/ ParseForLoopEnd

\* C18 as stated: after the handler of a conditional, switch, loop or range
\* loop the cursor is the construct's next block in every case, and after
\* return or break it is unset.
CursorIsNextInEveryCase ==
    [][/\ ConstructEnds => current_block' = Top.next
       /\ Return \/ Break => current_block' = None]_vars

\* C18: after the handler of a conditional, switch or loop, and of a range
\* loop whose body left the cursor set, the cursor is the construct's fresh
\* next block, also when every path inside ended in return or break; a
\* range loop whose body left the cursor unset aborts with the cursor
\* unset; after return or break the cursor is unset.
CursorIsNextUnlessRangeLoopAborts ==
    [][/\ ConstructEnds =>
            IF Top.kind = "RangeLoop" /\ current_block = None
            THEN /\ status' = PanicForLoop
                 /\ current_block' = None
            ELSE /\ status' = "lowering"
                 /\ current_block' = Top.next
                 /\ Top.next > Top.current_block
                 /\ Top.next # ret
       /\ Return \/ Break => current_block' = None]_vars

\* a finished two-branch conditional whose branches both left the cursor
\* unset, one of them by a break: the cursor is its next, a block without
\* incoming edge
CursorIsNextUnlessRangeLoopAborts_Witness ==
    /\ status = "lowering"
    /\ hist.breaks # {}
    /\ \E n \in Nodes :
          /\ CF(n).tag = "IfElse"
          /\ CF(n).or_else = CF(n).then + 1
          /\ current_block = CF(n).or_else + 1
          /\ InDegree(program, current_block) = 0

\* how often each block of p is flagged Merge
MergeFlags(p) == [n \in 1..p.nodes |-> SeqCount(p.blocks[n].block_use, "Merge")]

\* C19: a conditional, single-branch or two-branch, of which a branch
\* contains a break gets merge = None, and the steps of its own handler flag
\* no block Merge: every block, ret included, is flagged as before, and a
\* block added by the step is not flagged.
BreakingConditionalFlagsNothing ==
    [][(IfEnds \/ IfElseThenEnds \/ IfElseEnds)
            /\ (Top.scope_break \/ Top.is_break) =>
        /\ stack' = Pop => CFAfter(Top.current_block).merge = None
        /\ \A n \in 1..program'.nodes :
              IF n <= program.nodes
              THEN MergeFlags(program')[n] = MergeFlags(program)[n]
              ELSE MergeFlags(program')[n] = 0]_vars

\* C20: when a range loop is lowered, the block flagged ContinueTarget and
\* named in the header's LoopBreak terminator is the exit block of the body
\* exactly when that block is not flagged Merge, and otherwise a fresh block
\* whose only incoming edge comes from the exit block; either way its only
\* outgoing edge is the back edge to the header, and the header has edges to
\* body and next.
ContinueTargetIdentity ==
    [][ParseForLoopEnd /\ current_block # None =>
        LET f == Top
            exit == current_block
            cf == CFAfter(f.header)
            ct == cf.continue_target
        IN /\ cf.tag = "LoopBreak"
           /\ cf.body = f.body /\ cf.merge = f.next
           /\ HasUse(program', ct, "ContinueTarget")
           /\ \A n \in 1..program'.nodes :
                 n # ct => IF n <= program.nodes
                           THEN program'.blocks[n].block_use \in
                                  {program.blocks[n].block_use,
                                   Append(program.blocks[n].block_use, "Merge")}
                           ELSE FALSE
           /\ (ct = exit) <=> ~HasUse(program, exit, "Merge")
           /\ ct # exit =>
                 /\ ct = program.nodes + 1
                 /\ program'.nodes = ct
                 /\ predecessors(program', ct) = <<exit>>
                 /\ ~HasUse(program', exit, "ContinueTarget")
           /\ OutDegree(program', ct) = 1
           /\ Successors(program', ct) = {f.header}
           /\ Successors(program', f.header) = {f.body, f.next}
           /\ OutDegree(program', f.header) = 2]_vars

\* a lowered range loop whose body ended in a Merge block: its continue
\* target is another block, entered from that exit block only
ContinueTargetIdentity_Witness ==
    /\ status = "lowering"
    /\ \E r \in hist.ranges :
          LET ct == CF(r.header).continue_target
          IN /\ HasUse(program, r.exit, "Merge")
             /\ ct # r.exit
             /\ HasUse(program, ct, "ContinueTarget")
             /\ predecessors(program, ct) = <<r.exit>>
             /\ Successors(program, ct) = {r.header}
             /\ current_block = CF(r.header).merge

\* C21: parse_loop always allocates a fresh continue target flagged
\* ContinueTarget and always adds continue target -> header, also when the
\* body left the cursor unset (the continue target then has no incoming
\* edge); the header's only outgoing edge goes to body, its terminator is
\* Loop{body, continue_target, merge = next}, and next is flagged Merge and
\* is entered only by the edges of breaks.
LoopShape ==
    [][ParseLoopEnd =>
        LET f == Top
            ct == program.nodes + 1
        IN /\ program'.nodes = ct
           /\ ct \notin {f.header, f.body, f.next, f.current_block, ret}
           /\ program'.blocks[ct] =
                 [DefaultBlock EXCEPT !.block_use = <<"ContinueTarget">>]
           /\ Successors(program', ct) = {f.header}
           /\ OutDegree(program', ct) = 1
           /\ predecessors(program', ct) =
                 IF current_block = None THEN <<>> ELSE <<current_block>>
           /\ Successors(program', f.header) = {f.body}
           /\ OutDegree(program', f.header) = 1
           /\ CFAfter(f.header) =
                 [tag |-> "Loop", body |-> f.body, continue_target |-> ct,
                  merge |-> f.next]
           /\ program'.blocks[f.next].block_use = <<"Merge">>
           /\ \A e \in 1..Len(program'.edges) :
                 program'.edges[e][2] = f.next =>
                    \E b \in hist.breaks :
                       /\ b.block = program'.edges[e][1]
                       /\ b.innermost = f.next
                       /\ b.edges + 1 = e]_vars

\* a lowered loop whose body left the cursor unset: the continue target has
\* no incoming edge but its back edge, and next is entered by a break
LoopShape_Witness ==
    /\ status = "lowering"
    /\ \E n \in Nodes :
          /\ CF(n).tag = "Loop"
          /\ InDegree(program, CF(n).continue_target) = 0
          /\ Successors(program, CF(n).continue_target) = {n}
          /\ current_block = CF(n).merge
          /\ InDegree(program, CF(n).merge) > 0

\* where in the program an instruction of kind op is found
OpSites(op) ==
    UNION {{<<n, k>> : k \in {j \in 1..Len(program.blocks[n].ops) :
                                  program.blocks[n].ops[j].op = op}} :
           n \in Nodes}
OpAt(site) == program.blocks[site[1]].ops[site[2]]

\* C22: for a lowered range loop the assignment of start to the induction
\* variable is in the block that was current before the header was created
\* and in no other block; the header holds exactly one comparison of the
\* induction variable with end, LowerEqual for an inclusive loop and Lower
\* for an exclusive one, writing a temporary no other instruction writes,
\* which is the break_cond of the header's terminator; the increment adds
\* the given step, or the constant 1 when none is given.
RangeLoopInstructions ==
    \A r \in hist.ranges :
        LET assigns == {x \in OpSites("Assign") : OpAt(x).out = r.i}
            cmps == {x \in OpSites("Lower") \cup OpSites("LowerEqual") :
                        x[1] = r.header}
            writers == {x \in OpSites("Lower") \cup OpSites("LowerEqual") :
                          OpAt(x).out = CF(r.header).break_cond}
            adds == {x \in OpSites("Add") : OpAt(x).out = r.i}
        IN /\ Cardinality(assigns) = 1
           /\ \A x \in assigns :
                 /\ x[1] = r.entry
                 /\ OpAt(x).input = "start"
           /\ Cardinality(cmps) = 1
           /\ \A x \in cmps :
                 /\ OpAt(x).op = (IF r.inclusive THEN "LowerEqual" ELSE "Lower")
                 /\ OpAt(x).lhs = r.i
                 /\ OpAt(x).rhs = "end"
                 /\ OpAt(x).out = CF(r.header).break_cond
                 /\ OpAt(x).out.kind = "Temp"
           /\ writers = cmps
           /\ CF(r.header).tag = "LoopBreak"
           /\ Cardinality(adds) = 1
           /\ \A x \in adds :
                 /\ OpAt(x).lhs = r.i
                 /\ OpAt(x).rhs = (IF r.step = "None" THEN ConstOne ELSE GivenStep)

\* an inclusive range loop without step and an exclusive one with a step
\* have both been lowered
RangeLoopInstructions_Witness ==
    /\ status = "lowered"
    /\ \E r, q \in hist.ranges :
          /\ r.inclusive /\ r.step = "None"
          /\ ~q.inclusive /\ q.step = "Some"
          /\ r.entry # 1

\* the critical edges of graph p: the source branches, the target joins
CriticalEdges(p) ==
    {e \in 1..Len(p.edges) :
        /\ OutDegree(p, p.edges[e][1]) > 1
        /\ InDegree(p, p.edges[e][2]) > 1}

\* the blocks the pass inserted
Inserted == (hist.lowered.nodes + 1)..program.nodes

\* inserted blocks standing between s and t
Between(s, t) ==
    {n \in Inserted : /\ predecessors(program, n) = <<s>>
                      /\ Successors(program, n) = {t}
                      /\ OutDegree(program, n) = 1}

\* C23: the critical-edge pass returns on every input graph, and it inserts
\* exactly one block per critical edge of its input: every inserted block
\* has one incoming and one outgoing edge, no flags and terminator None;
\* every other edge stays in place; in-degree and out-degree of the earlier
\* blocks are unchanged; every edge s->t of the input is afterwards s->t or
\* s->n->t with n inserted.
SplitFrame ==
    /\ status = "lowered" =>
          split_critical_edges(program).program.nodes =
             program.nodes + Cardinality(CriticalEdges(program))
    /\ status = "split1" =>
        LET old == hist.lowered
            crit == CriticalEdges(old)
        IN /\ Cardinality(Inserted) = Cardinality(crit)
           /\ Len(hist.splits) = Cardinality(crit)
           /\ \A n \in Inserted :
                 /\ program.blocks[n] = DefaultBlock
                 /\ InDegree(program, n) = 1
                 /\ OutDegree(program, n) = 1
           /\ \A n \in 1..old.nodes :
                 /\ InDegree(program, n) = InDegree(old, n)
                 /\ OutDegree(program, n) = OutDegree(old, n)
           /\ \A e \in 1..Len(old.edges) :
                 LET s == old.edges[e][1]
                     t == old.edges[e][2]
                 IN IF e \in crit
                    THEN /\ Cardinality(Between(s, t)) =
                              Cardinality({d \in crit : old.edges[d] = <<s, t>>})
                         /\ ~HasEdge(program, s, t)
                    ELSE /\ program.edges[e] = <<s, t>>
                         /\ Between(s, t) = {}

\* the pass has split two parallel edges and left another edge in place
SplitFrame_Witness ==
    /\ status = "split1"
    /\ \E s, t \in 1..hist.lowered.nodes : Cardinality(Between(s, t)) = 2
    /\ \E e \in 1..Len(hist.lowered.edges) :
          /\ e \notin CriticalEdges(hist.lowered)
          /\ program.edges[e] = hist.lowered.edges[e]

\* the branching blocks of the constructs whose handler has not returned
InProgress ==
    {stack[i].current_block :
        i \in {k \in 1..Len(stack) : IsBranchKind(stack[k].kind)}}
    \cup {stack[i].header :
        i \in {k \in 1..Len(stack) : stack[k].kind = "RangeLoop"}}

\* C24: during lowering and after the critical-edge pass, every block whose
\* terminator is None has at most one outgoing edge, and a block with two or
\* more outgoing edges carries an IfElse, Switch or LoopBreak terminator --
\* the branching block of a construct whose lowering has not completed
\* excepted.
NoneTerminatorHasOneSuccessor ==
    \A n \in Nodes \ InProgress :
        /\ CF(n).tag = "None" => OutDegree(program, n) <= 1
        /\ OutDegree(program, n) >= 2 =>
              CF(n).tag \in {"IfElse", "Switch", "LoopBreak"}

\* after the pass: finished branching blocks of each kind, blocks without
\* terminator that have one outgoing edge, and inserted blocks among them
NoneTerminatorHasOneSuccessor_Witness ==
    /\ status = "split1"
    /\ hist.splits # <<>>
    /\ \E n \in Nodes : CF(n).tag = "LoopBreak" /\ OutDegree(program, n) = 2
    /\ \E n \in Nodes : CF(n).tag \in {"IfElse", "Switch"}
                          /\ OutDegree(program, n) >= 2
    /\ \E n \in 1..hist.lowered.nodes :
          CF(n).tag = "None" /\ OutDegree(program, n) = 1

IsSetByLowering(cf) == cf.tag \in {"IfElse", "Switch", "Loop", "LoopBreak"}

\* C25: once a conditional, switch or loop lowering has stored a terminator
\* on a block, no later lowering step changes that terminator or adds an
\* outgoing edge to the block; the critical-edge pass keeps its kind and
\* the number of its outgoing edges and can only redirect references.
TerminatorAssignedOnce ==
    [][\A n \in Nodes :
         IsSetByLowering(CF(n)) =>
            IF status = "lowering"
            THEN /\ CFAfter(n) = CF(n)
                 /\ OutEdges(program', n) = OutEdges(program, n)
                 /\ \A e \in OutEdges(program, n) :
                       program'.edges[e] = program.edges[e]
            ELSE /\ CFAfter(n).tag = CF(n).tag
                 /\ OutDegree(program', n) = OutDegree(program, n)
                 /\ MergeOf(CFAfter(n)) = MergeOf(CF(n))]_vars

\* a conditional was lowered, a later construct was lowered after it, and
\* the pass has redirected a reference of the conditional's terminator
TerminatorAssignedOnce_Witness ==
    /\ status = "split1"
    /\ \E n \in 1..hist.lowered.nodes :
          LET before == hist.lowered.blocks[n].control_flow
          IN /\ before.tag = "IfElse"
             /\ CF(n).tag = "IfElse"
             /\ CF(n) # before
             /\ \E m \in (n + 1)..hist.lowered.nodes :
                   /\ m > before.or_else
                   /\ IsSetByLowering(hist.lowered.blocks[m].control_flow)

\* C10: before the critical-edge pass, for every block whose terminator is
\* not None the successor nodes named by the terminator are exactly the
\* targets of the block's outgoing edges.
TerminatorMatchesEdges ==
    status \notin {"split1", "split2"} =>
        \A n \in Nodes :
            CF(n).tag # "None" => SuccRefs(CF(n)) = Successors(program, n)

\* a conditional, a switch, a loop and a range loop have been lowered
TerminatorMatchesEdges_Witness ==
    /\ status = "lowered"
    /\ \E n \in Nodes : CF(n).tag = "IfElse" /\ MergeOf(CF(n)) = ret
    /\ \E n \in Nodes : CF(n).tag \in {"Loop", "LoopBreak", "Switch"}

====
